---- MODULE Spec2Model ----
(***************************************************************************)
(* Model of hopsworks.login / hopsworks._prompt_project / hopsworks.logout *)
(* (python/hopsworks/__init__.py).                                         *)
(*                                                                         *)
(* A call of login is a sequence of steps separated by the places where    *)
(* the code blocks on the outside world: establishing a Connection,        *)
(* listing the projects, the getpass prompt and the input() prompt.        *)
(* Everything the code does between two such places is part of one step.   *)
(*                                                                         *)
(* Optional values (Python None or a value) are sets with at most one      *)
(* element: None is {} and a value v is {v}.  Strings that the code        *)
(* converts (strip, int) are sequences of one-character strings.           *)
(***************************************************************************)
EXTENDS Integers, Sequences, FiniteSets, TLC

\* ------------------------------------------------------------------ bounds
MaxInputs == 3
MaxLogouts == 2

\* --------------------------------------------------------------- constants
DefaultPort == 443
DefaultHost == "c.app.hopsworks.ai"
OtherHost == "my.hopsworks.server"

None == {}
Some(v) == {v}
IsNone(x) == x = {}
Get(x) == CHOOSE v \in x : TRUE

\* a port is the int the caller passed or the str read from the environment
IntPort(n) == [t |-> "int", v |-> n]
StrPort(n) == [t |-> "str", v |-> n]

\* file permission bits
Mode600 == {"ur", "uw"}
Mode644 == {"ur", "uw", "gr", "or"}
Umask == {"gw", "ow"}

\* API keys, as character sequences
KeyArg == <<"v">>
KeyEnv == <<"e">>
KeyInFile == <<"f">>
KeyCached == <<"c">>
KeyTyped == {<<"p">>, <<" ", "p", "\n">>}

\* the api_key_file paths a caller may pass: one that exists, one that does not
KeyFilePath == "key.txt"
MissingPath == "missing.txt"
\* os.path.exists answering True for every path
FileExistsAlways(p) == TRUE

\* os.path.exists
FileExists(p) == p = KeyFilePath
FileRead(p) == KeyInFile

\* the lists get_projects() may answer with, as lists of project names
ProjectLists == {<< >>, <<"a">>, <<"b", "a">>, <<"a", "b", "a">>}
CurrentProject == [idx |-> 0, name |-> "current"]
NoProject == [idx |-> 0, name |-> ""]

\* what the user may type at the project prompt
Typed == {<<"0">>, <<"x">>, <<"2">>, <<"3">>, <<"-", "1">>}

\* ----------------------------------------------------------- conversions
Whitespace == {" ", "\n", "\t"}

RECURSIVE lstrip(_)
lstrip(s) == IF s # << >> /\ Head(s) \in Whitespace THEN lstrip(Tail(s)) ELSE s

RECURSIVE rstrip(_)
rstrip(s) ==
    IF s # << >> /\ s[Len(s)] \in Whitespace
    THEN rstrip(SubSeq(s, 1, Len(s) - 1))
    ELSE s

\* str.strip()
strip(s) == rstrip(lstrip(s))

DigitValue(c) ==
    CASE c = "0" -> 0 [] c = "1" -> 1 [] c = "2" -> 2 [] c = "3" -> 3
      [] c = "4" -> 4 [] c = "5" -> 5 [] c = "6" -> 6 [] c = "7" -> 7
      [] c = "8" -> 8 [] c = "9" -> 9 [] OTHER -> -1

RECURSIVE digits(_)
digits(s) == IF s = << >> THEN 0 ELSE 10 * digits(SubSeq(s, 1, Len(s) - 1)) + DigitValue(s[Len(s)])

AllDigits(s) == s # << >> /\ \A i \in 1..Len(s) : DigitValue(s[i]) >= 0

\* int(str): ok is FALSE where Python raises ValueError
int(s) ==
    LET t == strip(s)
        signed == t # << >> /\ Head(t) \in {"-", "+"}
        body == IF signed THEN Tail(t) ELSE t
    IN  IF AllDigits(body)
        THEN [ok |-> TRUE, v |-> IF signed /\ Head(t) = "-" THEN 0 - digits(body) ELSE digits(body)]
        ELSE [ok |-> FALSE, v |-> 0]

\* ------------------------------------------------------------------ state
VARIABLES
    env,            \* os.environ: the five variables login looks at
    cache,          \* the file .hw_api_key of the working directory
    conn,           \* _saas_connection: the placeholder Connection.connection or a session
    leaked,         \* sessions still open that _saas_connection no longer refers to
    pc,             \* where the running login call is, "idle" between calls
    args,           \* the arguments of the running login call
    host, port, project, api_key,   \* login's locals
    branch,         \* "managed" (line 105), "cached" (try of line 161) or "main" (try of line 186)
    saas_projects,  \* _prompt_project's local list
    outcome,        \* how the login call ended
    project_obj,    \* what it returned
    error,          \* the text its exception names
    attempts,       \* history: the Connection(...) calls of this login call
    keyPrompts,     \* history: how often getpass was shown in this call
    fileOps,        \* history: what this call did to key files
    inputs,         \* history: what was typed at the project prompt in this call
    closedAtEntry,  \* history: did line 99 of this call close a session
    entryCache,     \* history: the cache file as this call found it
    logouts,        \* history: logout() calls made since the last login call ended
    closedByLogout  \* history: did one of them close a session

vars == <<env, cache, conn, leaked, pc, args, host, port, project, api_key,
          branch, saas_projects, outcome, project_obj, error, attempts, keyPrompts,
          fileOps, inputs, closedAtEntry, entryCache, logouts, closedByLogout>>

\* the locals and the history of one call
frame == <<args, host, port, project, api_key, branch, saas_projects, outcome,
           project_obj, error, attempts, keyPrompts, fileOps, inputs, closedAtEntry,
           entryCache>>

\* ------------------------------------------------- the values calls are made with
Envs ==
    [REST_ENDPOINT : BOOLEAN,
     HOPSWORKS_HOST : {None, Some(OtherHost)},
     HOPSWORKS_PORT : {None, Some(9090)},
     HOPSWORKS_PROJECT : {None, Some("a")},
     HOPSWORKS_API_KEY : {None, Some(KeyEnv)}]

Args ==
    [host : {None, Some(DefaultHost), Some(OtherHost)},
     port : {DefaultPort, 8181},
     project : {None, Some("z")},
     api_key_value : {None, Some(KeyArg)},
     api_key_file : {None, Some(KeyFilePath), Some(MissingPath)}]

NoArgs ==
    [host |-> None, port |-> DefaultPort, project |-> None,
     api_key_value |-> None, api_key_file |-> None]

\* the cache file; origin, typed and rejected are history: who wrote the file, what
\* was typed at the prompt that wrote it, and has a Connection made from it failed
NoFile ==
    [exists |-> FALSE, content |-> << >>, mode |-> {}, origin |-> "", typed |-> << >>,
     rejected |-> FALSE]
CacheFiles ==
    {NoFile} \cup
    {[exists |-> TRUE, content |-> KeyCached, mode |-> m, origin |-> "before",
      typed |-> << >>, rejected |-> FALSE] : m \in {Mode600, Mode644}}

\* _saas_connection
Placeholder == [session |-> FALSE, open |-> FALSE, closes |-> 0]
NewSession == [session |-> TRUE, open |-> TRUE, closes |-> 0]

InitFrame ==
    /\ args = NoArgs
    /\ host = None
    /\ port = IntPort(DefaultPort)
    /\ project = None
    /\ api_key = None
    /\ branch = "main"
    /\ saas_projects = << >>
    /\ outcome = "none"
    /\ project_obj = NoProject
    /\ error = ""
    /\ attempts = << >>
    /\ keyPrompts = 0
    /\ fileOps = {}
    /\ inputs = << >>
    /\ closedAtEntry = FALSE
    /\ entryCache = NoFile

Init ==
    /\ env \in Envs
    /\ cache \in CacheFiles
    /\ conn = Placeholder
    /\ leaked = 0
    /\ pc = "idle"
    /\ logouts = 0
    /\ closedByLogout = FALSE
    /\ InitFrame

\* ------------------------------------------------------------------ logout
\* logout with the close() of line 239 left out
logout_close_skipped(c) == c

\* lines 238-239
logout_close(c) ==
    IF c.session THEN [c EXCEPT !.open = FALSE, !.closes = @ + 1] ELSE c

\* logout with the reset of line 240 left out
logout_reset_skipped(c) == c

\* line 240
logout_reset(c) == Placeholder

\* a session that is open when the last reference to it goes is never closed
Unreferenced(old, new) == IF old.session /\ old.open /\ new # old THEN 1 ELSE 0

\* logout()
DoLogout ==
    /\ conn' = logout_reset(logout_close(conn))
    /\ leaked' = leaked + Unreferenced(logout_close(conn), logout_reset(logout_close(conn)))

Logout ==
    /\ pc = "idle"
    /\ logouts < MaxLogouts
    /\ DoLogout
    /\ logouts' = logouts + 1
    /\ closedByLogout' = (closedByLogout \/ logout_close(conn) # conn)
    /\ UNCHANGED <<env, cache, pc, frame>>

\* ------------------------------------------------------ login: resolution
\* lines 116-122
env_api_key(a, e) ==
    IF IsNone(a.api_key_value) /\ IsNone(a.api_key_file) /\ ~IsNone(e.HOPSWORKS_API_KEY)
    THEN e.HOPSWORKS_API_KEY
    ELSE None

\* lines 125-126
resolve_project(a, e) ==
    IF IsNone(a.project) /\ ~IsNone(e.HOPSWORKS_PROJECT) THEN e.HOPSWORKS_PROJECT ELSE a.project

\* lines 129-132
resolve_host(a, e) ==
    IF IsNone(a.host) /\ ~IsNone(e.HOPSWORKS_HOST) THEN Get(e.HOPSWORKS_HOST)
    ELSE IF IsNone(a.host) THEN DefaultHost
    ELSE Get(a.host)

\* lines 135-136
resolve_port(a, e) ==
    IF a.port = DefaultPort /\ ~IsNone(e.HOPSWORKS_PORT)
    THEN StrPort(Get(e.HOPSWORKS_PORT))
    ELSE IntPort(a.port)

\* line 160
\* line 160 without its host test
use_cache_any_host(c, h) == c.exists

\* line 160
use_cache(c, h) == c.exists /\ h = DefaultHost

\* line 173
ask_for_key(k, h) == IsNone(k) /\ h = DefaultHost

\* line 171 left out
remove_skipped(c) == c

\* os.remove
remove(c) == NoFile

\* line 184 writing api_key instead of api_key.strip()
write_key_unstripped(c, k) ==
    IF c.exists
    THEN [c EXCEPT !.content = k, !.origin = "getpass", !.typed = k, !.rejected = FALSE]
    ELSE [exists |-> TRUE, content |-> k, mode |-> Mode600 \ Umask,
          origin |-> "getpass", typed |-> k, rejected |-> FALSE]

\* lines 180-184: os.open(O_WRONLY | O_CREAT | O_TRUNC, mode=0o600), then write
write_key(c, k) ==
    IF c.exists
    THEN [c EXCEPT !.content = strip(k), !.origin = "getpass", !.typed = k,
                   !.rejected = FALSE]
    ELSE [exists |-> TRUE, content |-> strip(k), mode |-> Mode600 \ Umask,
          origin |-> "getpass", typed |-> k, rejected |-> FALSE]

\* ------------------------------------------------------ login: how it ends
Raise(kind, text) ==
    /\ pc' = "done"
    /\ outcome' = kind
    /\ error' = text
    /\ project_obj' = NoProject

Return(p) ==
    /\ pc' = "done"
    /\ outcome' = "returned"
    /\ error' = ""
    /\ project_obj' = p

\* line 173 onwards, reached with the key k resolved so far
AfterCredentials(k, h) ==
    /\ pc' = IF ask_for_key(k, h) THEN "getpass" ELSE "connect"
    /\ branch' = "main"
    /\ UNCHANGED <<outcome, error, project_obj>>


\* line 104 never taking the managed branch
never_inside(e) == FALSE

\* line 104
inside_hopsworks(e) == e.REST_ENDPOINT

\* ------------------------------------------------------------ login: steps
\* lines 99-171, up to the first Connection(...) or prompt
Login(a) ==
    /\ pc = "idle"
    /\ args' = a
    /\ DoLogout
    /\ closedAtEntry' = (logout_close(conn) # conn)
    /\ entryCache' = cache
    /\ closedByLogout' = FALSE
    /\ attempts' = << >>
    /\ keyPrompts' = 0
    /\ inputs' = << >>
    /\ logouts' = 0
    /\ saas_projects' = << >>
    /\ UNCHANGED <<env, cache>>
    /\ IF inside_hopsworks(env)
       THEN /\ pc' = "connect"
            /\ host' = a.host
            /\ port' = IntPort(a.port)
            /\ project' = a.project
            /\ api_key' = None
            /\ branch' = "managed"
            /\ fileOps' = {}
            /\ UNCHANGED <<outcome, error, project_obj>>
       ELSE LET h == resolve_host(a, env)
                k == env_api_key(a, env)
            IN  /\ host' = Some(h)
                /\ port' = resolve_port(a, env)
                /\ project' = resolve_project(a, env)
                /\ IF ~IsNone(a.api_key_value)
                   THEN /\ api_key' = a.api_key_value
                        /\ fileOps' = {}
                        /\ AfterCredentials(a.api_key_value, h)
                   ELSE IF ~IsNone(a.api_key_file)
                   THEN IF FileExists(Get(a.api_key_file))
                        THEN /\ api_key' = Some(FileRead(Get(a.api_key_file)))
                             /\ fileOps' = {"read api_key_file"}
                             /\ AfterCredentials(Some(FileRead(Get(a.api_key_file))), h)
                        ELSE /\ api_key' = k
                             /\ fileOps' = {}
                             /\ branch' = "main"
                             /\ Raise("IOError", "Could not find api key file on path: "
                                                  \o Get(a.api_key_file))
                   ELSE IF use_cache(cache, h)
                   THEN /\ api_key' = k
                        /\ fileOps' = {}
                        /\ pc' = "connect"
                        /\ branch' = "cached"
                        /\ UNCHANGED <<outcome, error, project_obj>>
                   ELSE /\ api_key' = k
                        /\ fileOps' = {}
                        /\ AfterCredentials(k, h)

\* lines 105, 162-164, 187: the key the Connection(...) call of this branch is given
connect_key(b, c, k) ==
    IF b = "cached" THEN [src |-> "api_key_file", key |-> Some(c.content), file |-> c]
    ELSE IF b = "managed" THEN [src |-> "implicit", key |-> None, file |-> NoFile]
    ELSE [src |-> "api_key_value", key |-> k, file |-> NoFile]

\* lines 168-171: except RestAPIError in the cached branch
CatchCached ==
    /\ DoLogout
    /\ cache' = remove([cache EXCEPT !.rejected = TRUE])
    /\ fileOps' = fileOps \cup {"remove .hw_api_key"}
    /\ AfterCredentials(api_key, Get(host))

\* lines 189-191 asking for another key instead of raising
CatchMainRetry ==
    /\ DoLogout
    /\ pc' = "getpass"
    /\ UNCHANGED <<cache, fileOps, branch, outcome, error, project_obj>>

\* lines 189-191: except RestAPIError in the main branch
CatchMain ==
    /\ DoLogout
    /\ Raise("RestAPIError", "")
    /\ UNCHANGED <<cache, fileOps, branch>>

\* lines 105-106: the managed branch has no handler
NoCatch ==
    /\ Raise("RestAPIError", "")
    /\ UNCHANGED <<conn, leaked, cache, fileOps, branch>>

Catch ==
    IF branch = "cached" THEN CatchCached
    ELSE IF branch = "main" THEN CatchMain
    ELSE NoCatch

\* lines 105, 162-164, 187: _saas_connection = _saas_connection(...) gives a new open
\* session or raises RestAPIError; only the placeholder can be called
Connect ==
    /\ pc = "connect"
    /\ attempts' = Append(attempts, [src |-> connect_key(branch, cache, api_key).src,
                                     key |-> connect_key(branch, cache, api_key).key,
                                     file |-> connect_key(branch, cache, api_key).file,
                                     host |-> host, port |-> port])
    /\ IF conn.session
       THEN /\ Raise("TypeError", "")
            /\ UNCHANGED <<conn, leaked, cache, fileOps, branch>>
       ELSE \/ /\ conn' = NewSession
               /\ leaked' = leaked + Unreferenced(conn, NewSession)
               /\ pc' = IF branch = "managed" THEN "get_project" ELSE "get_projects"
               /\ fileOps' = IF branch = "cached" THEN fileOps \cup {"read .hw_api_key"} ELSE fileOps
               /\ UNCHANGED <<cache, branch, outcome, error, project_obj>>
            \/ Catch
    /\ UNCHANGED <<env, args, host, port, project, api_key, saas_projects,
                   keyPrompts, inputs, closedAtEntry, entryCache, logouts, closedByLogout>>

\* line 106: get_project() of the implicit session
GetProject ==
    /\ pc = "get_project"
    /\ \/ /\ Return(CurrentProject)
          /\ UNCHANGED <<conn, leaked, cache, fileOps, branch>>
       \/ Catch
    /\ UNCHANGED <<env, args, host, port, project, api_key, saas_projects,
                   attempts, keyPrompts, inputs, closedAtEntry, entryCache, logouts, closedByLogout>>

\* lines 230-232 returning the last match instead of the first
find_last_project(l, n) ==
    IF \E i \in 1..Len(l) : l[i] = n
    THEN CHOOSE i \in 1..Len(l) : l[i] = n /\ \A j \in (i + 1)..Len(l) : l[j] # n
    ELSE 0

\* line 231 comparing nothing: the first listed project whatever its name
find_any_project(l, n) == IF Len(l) > 0 THEN 1 ELSE 0

\* lines 230-232: the first project of the list with this name, 0 if there is none
find_project(l, n) ==
    IF \E i \in 1..Len(l) : l[i] = n
    THEN CHOOSE i \in 1..Len(l) : l[i] = n /\ \A j \in 1..(i - 1) : l[j] # n
    ELSE 0

\* the project object at position i of the list l
Proj(l, i) == [idx |-> i, name |-> l[i]]

\* line 200 never finding the list empty
no_projects_never(l) == FALSE

\* line 200
no_projects(l) == Len(l) = 0

\* line 202 never finding a single project
single_project_never(l) == FALSE

\* line 202
single_project(l) == Len(l) = 1

\* lines 198-203 and 229-233: _prompt_project up to its prompt
GetProjects ==
    /\ pc = "get_projects"
    /\ \/ \E l \in ProjectLists :
            /\ saas_projects' = l
            /\ UNCHANGED <<conn, leaked, cache, fileOps, branch>>
            /\ IF IsNone(project)
               THEN IF no_projects(l) THEN Raise("ProjectException", "Could not find any project")
                    ELSE IF single_project(l) THEN Return(Proj(l, 1))
                    ELSE /\ pc' = "input"
                         /\ UNCHANGED <<outcome, error, project_obj>>
               ELSE IF find_project(l, Get(project)) # 0
                    THEN Return(Proj(l, find_project(l, Get(project))))
                    ELSE Raise("ProjectException", "Could not find project " \o Get(project))
       \/ /\ Catch
          /\ UNCHANGED saas_projects
    /\ UNCHANGED <<env, args, host, port, project, api_key,
                   attempts, keyPrompts, inputs, closedAtEntry, entryCache, logouts, closedByLogout>>

\* line 215 testing < 0 instead of <= 0
rejected_index_negative(n) == n < 0

\* line 215
rejected_index(n) == n <= 0

\* list[j] of Python: pos is the position (from 1) of the element, ok is FALSE
\* where Python raises IndexError
getitem(l, j) ==
    IF 0 <= j /\ j < Len(l) THEN [ok |-> TRUE, pos |-> j + 1]
    ELSE IF j < 0 /\ 0 - j <= Len(l) THEN [ok |-> TRUE, pos |-> Len(l) + j + 1]
    ELSE [ok |-> FALSE, pos |-> 0]

\* lines 212-228: what one round of the inner loop does with the text s:
\* pos is the position of the project it returns, 0 if it asks again
choose_project(s, l) ==
    IF ~int(s).ok THEN 0
    ELSE IF rejected_index(int(s).v) THEN 0
    ELSE IF ~getitem(l, int(s).v - 1).ok THEN 0
    ELSE getitem(l, int(s).v - 1).pos

\* lines 209-228: one round of the inner loop
Input ==
    /\ pc = "input"
    /\ Len(inputs) < MaxInputs
    /\ \E s \in Typed :
        /\ inputs' = Append(inputs, s)
        /\ IF choose_project(s, saas_projects) # 0
           THEN Return(Proj(saas_projects, choose_project(s, saas_projects)))
           ELSE UNCHANGED <<pc, outcome, error, project_obj>>
    /\ UNCHANGED <<env, cache, conn, leaked, args, host, port, project, api_key,
                   branch, saas_projects, attempts, keyPrompts, fileOps, closedAtEntry,
                   entryCache, logouts, closedByLogout>>

\* lines 174-184: the key prompt and the write of the cache file
GetPass ==
    /\ pc = "getpass"
    /\ \E k \in KeyTyped :
        /\ api_key' = Some(k)
        /\ cache' = write_key(cache, k)
    /\ keyPrompts' = keyPrompts + 1
    /\ fileOps' = fileOps \cup {"write .hw_api_key"}
    /\ pc' = "connect"
    /\ UNCHANGED <<env, conn, leaked, args, host, port, project, branch,
                   saas_projects, outcome, project_obj, error, attempts, inputs,
                   closedAtEntry, entryCache, logouts, closedByLogout>>

\* login has returned or raised: its frame is gone
Finish ==
    /\ pc = "done"
    /\ pc' = "idle"
    /\ args' = NoArgs
    /\ host' = None
    /\ port' = IntPort(DefaultPort)
    /\ project' = None
    /\ api_key' = None
    /\ branch' = "main"
    /\ saas_projects' = << >>
    /\ outcome' = "none"
    /\ project_obj' = NoProject
    /\ error' = ""
    /\ attempts' = << >>
    /\ keyPrompts' = 0
    /\ fileOps' = {}
    /\ inputs' = << >>
    /\ closedAtEntry' = FALSE
    /\ entryCache' = NoFile
    /\ UNCHANGED <<env, cache, conn, leaked, logouts, closedByLogout>>

Next ==
    \/ \E a \in Args : Login(a)
    \/ Connect
    \/ GetProject
    \/ GetProjects
    \/ Input
    \/ GetPass
    \/ Finish
    \/ Logout

Spec == Init /\ [][Next]_vars

\* ================================================================== claims
InLogin == pc # "idle"
External == ~env.REST_ENDPOINT
OpenSessions == leaked + (IF conn.session /\ conn.open THEN 1 ELSE 0)

\* the highest-precedence source that is set: argument, then environment, then default
WantHost ==
    IF args.host # None THEN Get(args.host)
    ELSE IF env.HOPSWORKS_HOST # None THEN Get(env.HOPSWORKS_HOST)
    ELSE DefaultHost
WantPort ==
    IF args.port # DefaultPort THEN IntPort(args.port)
    ELSE IF env.HOPSWORKS_PORT # None THEN StrPort(Get(env.HOPSWORKS_PORT))
    ELSE IntPort(DefaultPort)
WantProject ==
    IF args.project # None THEN args.project ELSE env.HOPSWORKS_PROJECT
WantKey ==
    IF args.api_key_value # None THEN args.api_key_value
    ELSE IF args.api_key_file # None THEN Some(KeyInFile)
    ELSE env.HOPSWORKS_API_KEY

\* C1: outside the managed environment, every Connection login makes is given the
\* host, the port and the API key of the highest-precedence source that is set
\* (argument, then environment variable, then default), and the project is
\* selected by the name of the highest-precedence source that is set.
C1_PrecedenceUsed ==
    (InLogin /\ External) =>
        /\ \A i \in 1..Len(attempts) :
            /\ attempts[i].host = Some(WantHost)
            /\ attempts[i].port = WantPort
            /\ WantKey # None => attempts[i].key = WantKey
        /\ pc \in {"get_projects", "input"} => project = WantProject

\* C2: whenever login ends by raising RestAPIError, on any path, the session it
\* opened is closed and _saas_connection is the placeholder again.
C2_ApiFailureTearsDown ==
    (pc = "done" /\ outcome = "RestAPIError") => (conn = Placeholder /\ OpenSessions = 0)

\* C3: in every state reached by login and logout calls, at most one session is
\* open: the session a call finds is closed before the call opens another.
C3_AtMostOneOpenSession == OpenSessions <= 1

C3_Witness ==
    /\ closedAtEntry
    /\ pc = "get_projects"
    /\ conn = NewSession
    /\ OpenSessions = 1

\* C4: a logout closes only a session that is open and was never closed, leaves
\* the placeholder behind, and a logout that follows a logout changes nothing.
IsLogoutStep == pc = "idle" /\ logouts' = logouts + 1
C4_LogoutIdempotent ==
    [][IsLogoutStep =>
        /\ conn.session => (conn.open /\ conn.closes = 0)
        /\ conn' = Placeholder
        /\ leaked' = leaked
        /\ logouts >= 1 => UNCHANGED <<env, cache, conn, leaked, pc, frame>>]_vars

C4_Witness ==
    /\ logouts = 2
    /\ closedByLogout
    /\ conn = Placeholder
    /\ OpenSessions = 0

\* C5: once the except of the cached branch has run in a login call, the cache
\* file is gone, the call is at the key prompt or has shown it, and no later
\* Connection of the call is made from the cache file.
Removed == "remove .hw_api_key" \in fileOps
C5_RejectedCacheLeadsToPrompt ==
    (InLogin /\ Removed) =>
        /\ ~(cache.exists /\ cache.rejected)
        /\ pc = "getpass" \/ keyPrompts = 1
        /\ \A i \in 2..Len(attempts) : attempts[i].src # "api_key_file"

\* a login call that found the cache file a key prompt wrote, was given no key
\* argument and resolved the managed-service host
AfterPromptedLogin ==
    /\ InLogin
    /\ External
    /\ entryCache.exists
    /\ entryCache.origin = "getpass"
    /\ args.api_key_value = None
    /\ args.api_key_file = None
    /\ host = Some(DefaultHost)

\* C6 as stated: such a call makes its Connections from the cache file, whose
\* content is the key that was typed with the surrounding white space taken off,
\* and never shows the key prompt.
C6_RoundTripNeverPrompts ==
    AfterPromptedLogin =>
        /\ \A i \in 1..Len(attempts) :
            /\ attempts[i].src = "api_key_file"
            /\ attempts[i].key = Some(strip(entryCache.typed))
        /\ pc # "getpass"
        /\ keyPrompts = 0

\* C6 as amended: such a call makes its first Connection from the cache file,
\* whose content is the key that was typed with the surrounding white space taken
\* off, and shows the key prompt only after that Connection, or the project
\* listing through it, has failed and the file has been removed.
C6_RoundTripFirstAttempt ==
    AfterPromptedLogin =>
        /\ attempts = << >> => (pc = "connect" /\ branch = "cached")
        /\ attempts # << >> =>
            /\ attempts[1].src = "api_key_file"
            /\ attempts[1].file = entryCache
            /\ attempts[1].key = Some(strip(entryCache.typed))
        /\ (pc = "getpass" \/ keyPrompts > 0) => Removed

C6_Witness ==
    /\ AfterPromptedLogin
    /\ entryCache.typed = <<" ", "p", "\n">>
    /\ pc = "done"
    /\ outcome = "returned"
    /\ Len(attempts) = 1
    /\ attempts[1].key = Some(<<"p">>)
    /\ keyPrompts = 0

\* C7: once a login call has written the cache file, the file exists with the
\* permissions 0600, whatever the file was before the call.
Wrote == "write .hw_api_key" \in fileOps
C7_CacheFileOwnerOnly == (InLogin /\ Wrote) => (cache.exists /\ cache.mode = Mode600)

C7_Witness ==
    /\ pc = "done"
    /\ Wrote
    /\ entryCache.exists
    /\ entryCache.mode = Mode644
    /\ cache.mode = Mode600

\* C8: with REST_ENDPOINT set, login touches no key file, shows no prompt, runs no
\* project selection, connects with the implicit session only and returns that
\* session's current project, whatever the arguments, the other variables and
\* the cache file are.
C8_ManagedSkipsResolution ==
    env.REST_ENDPOINT =>
        /\ fileOps = {}
        /\ cache \in CacheFiles
        /\ InLogin => cache = entryCache
        /\ keyPrompts = 0
        /\ inputs = << >>
        /\ saas_projects = << >>
        /\ pc \notin {"get_projects", "input", "getpass"}
        /\ \A i \in 1..Len(attempts) : attempts[i].src = "implicit"
        /\ outcome \in {"none", "returned", "RestAPIError"}
        /\ outcome = "returned" => project_obj = CurrentProject

C8_Witness ==
    /\ env.REST_ENDPOINT
    /\ env.HOPSWORKS_API_KEY # None
    /\ cache.exists
    /\ args.project = Some("z")
    /\ args.api_key_file = Some(MissingPath)
    /\ pc = "done"
    /\ outcome = "returned"
    /\ project_obj = CurrentProject

\* the integer a typed text stands for, None if it is not a number
Number(s) ==
    IF s = <<"0">> THEN Some(0)
    ELSE IF s = <<"2">> THEN Some(2)
    ELSE IF s = <<"3">> THEN Some(3)
    ELSE IF s = <<"-", "1">> THEN Some(0 - 1)
    ELSE None
GoodChoice(s, n) == Number(s) # None /\ Get(Number(s)) >= 1 /\ Get(Number(s)) <= n
LastInput == inputs[Len(inputs)]

\* C9: the project prompt is shown only with no project name and two or more
\* projects; every text typed that is not an integer from 1 to n is rejected and
\* the prompt repeated without an error, and the first text that is such an
\* integer k ends the selection, which returns the k-th listed project.
C9_PromptSelection ==
    inputs # << >> =>
        /\ project = None
        /\ Len(saas_projects) >= 2
        /\ \A i \in 1..(Len(inputs) - 1) : ~GoodChoice(inputs[i], Len(saas_projects))
        /\ pc = "input" =>
            /\ ~GoodChoice(LastInput, Len(saas_projects))
            /\ outcome = "none"
        /\ pc # "input" =>
            /\ pc = "done"
            /\ outcome = "returned"
            /\ GoodChoice(LastInput, Len(saas_projects))
            /\ project_obj = [idx |-> Get(Number(LastInput)),
                              name |-> saas_projects[Get(Number(LastInput))]]

C9_Witness ==
    /\ inputs = <<<<"0">>, <<"x">>, <<"2">>>>
    /\ Len(saas_projects) = 3
    /\ pc = "done"
    /\ outcome = "returned"
    /\ project_obj = [idx |-> 2, name |-> saas_projects[2]]

\* C10: with a project name, the selection prompts for nothing; it returns the
\* first listed project of that name, and with no such project it raises the
\* ProjectException that names the project asked for.
Selected == pc = "done" /\ External /\ outcome \in {"returned", "ProjectException"}
C10_NamedSelection ==
    /\ pc = "input" => project = None
    /\ (Selected /\ project # None) =>
        /\ inputs = << >>
        /\ IF \E i \in 1..Len(saas_projects) : saas_projects[i] = Get(project)
           THEN /\ outcome = "returned"
                /\ project_obj.idx \in 1..Len(saas_projects)
                /\ project_obj.name = Get(project)
                /\ saas_projects[project_obj.idx] = Get(project)
                /\ \A j \in 1..(project_obj.idx - 1) : saas_projects[j] # Get(project)
           ELSE /\ outcome = "ProjectException"
                /\ error = "Could not find project " \o Get(project)

C10_Witness ==
    /\ Selected
    /\ project = Some("a")
    /\ saas_projects = <<"a", "b", "a">>
    /\ project_obj = [idx |-> 1, name |-> "a"]

\* C11 as stated: with no visible project the selection raises the
\* ProjectException "Could not find any project", with or without a project name.
C11_NoProjectAnyName ==
    (Selected /\ saas_projects = << >>) =>
        /\ outcome = "ProjectException"
        /\ error = "Could not find any project"

\* C11 as amended: with no visible project the selection never prompts and
\* raises a ProjectException: "Could not find any project" with no project name,
\* "Could not find project <name>" with one.
C11_NoProjectFails ==
    /\ pc = "input" => saas_projects # << >>
    /\ (Selected /\ saas_projects = << >>) =>
        /\ outcome = "ProjectException"
        /\ inputs = << >>
        /\ error = IF project = None
                   THEN "Could not find any project"
                   ELSE "Could not find project " \o Get(project)

C11_Witness ==
    /\ Selected
    /\ saas_projects = << >>
    /\ project = Some("z")
    /\ outcome = "ProjectException"
    /\ error = "Could not find project z"

\* C12: with exactly one visible project and no project name, the selection
\* returns that project and never prompts.
C12_SingleProject ==
    /\ (pc = "input" /\ project = None) => Len(saas_projects) # 1
    /\ (Selected /\ project = None /\ Len(saas_projects) = 1) =>
        /\ outcome = "returned"
        /\ project_obj = [idx |-> 1, name |-> saas_projects[1]]
        /\ inputs = << >>

C12_Witness ==
    /\ Selected
    /\ args.project = None
    /\ env.HOPSWORKS_PROJECT = None
    /\ saas_projects = <<"a">>
    /\ outcome = "returned"
    /\ project_obj = [idx |-> 1, name |-> "a"]
    /\ inputs = << >>

\* a login call outside the managed environment whose key comes from api_key_file
\* and whose api_key_file does not exist
MissingKeyFile ==
    /\ InLogin
    /\ External
    /\ args.api_key_value = None
    /\ args.api_key_file = Some(MissingPath)

\* C13: such a call ends at once with the IOError that names the path: it makes
\* no Connection, reads, deletes and writes no key file, shows no prompt and
\* leaves the placeholder as the current session.
C13_MissingKeyFileFailsFast ==
    MissingKeyFile =>
        /\ pc = "done"
        /\ outcome = "IOError"
        /\ error = "Could not find api key file on path: " \o MissingPath
        /\ attempts = << >>
        /\ fileOps = {}
        /\ cache = entryCache
        /\ keyPrompts = 0
        /\ inputs = << >>
        /\ conn = Placeholder
        /\ OpenSessions = 0

C13_Witness ==
    /\ MissingKeyFile
    /\ closedAtEntry
    /\ cache.exists
    /\ host = Some(DefaultHost)
    /\ env.HOPSWORKS_API_KEY # None
    /\ outcome = "IOError"
    /\ conn = Placeholder

\* the cached key file was used to establish a session, or the key prompt was shown
UsedCacheOrPrompt ==
    \/ \E i \in 1..Len(attempts) : attempts[i].src = "api_key_file"
    \/ "read .hw_api_key" \in fileOps
    \/ keyPrompts > 0
    \/ pc = "getpass"

\* C14: the credential sources are consulted in the order api_key_value,
\* api_key_file, cached key file, prompt: in a login call where api_key_value,
\* api_key_file or HOPSWORKS_API_KEY supplied a key, the cached key file is not
\* used to connect and the key prompt is not shown.
C14_LaterSourceOnlyWithoutKey ==
    (InLogin /\ External /\ WantKey # None) => ~UsedCacheOrPrompt

\* C15: with a resolved host other than the default one, login leaves the cached
\* key file as it was (it is not read to connect, deleted or written) and shows
\* no key prompt, also when no API key is supplied.
C15_OtherHostLeavesCache ==
    (InLogin /\ External /\ host # Some(DefaultHost)) =>
        /\ cache = entryCache
        /\ fileOps \subseteq {"read api_key_file"}
        /\ ~UsedCacheOrPrompt
        /\ \A i \in 1..Len(attempts) : attempts[i].host = host

C15_Witness ==
    /\ pc = "done"
    /\ External
    /\ host = Some(OtherHost)
    /\ WantKey = None
    /\ cache.exists
    /\ Len(attempts) = 1
    /\ attempts[1].key = None

\* C16: when login ends by raising RestAPIError, ProjectException or the IOError
\* of the missing key file, the current session is the placeholder and no
\* session is left open.
C16_RaiseLeavesPlaceholder ==
    (pc = "done" /\ outcome \in {"RestAPIError", "ProjectException", "IOError"}) =>
        /\ conn = Placeholder
        /\ OpenSessions = 0

\* C17: when login returns outside the managed environment, the current session
\* is the open session of the last Connection this call made, it is the only open
\* one, and the returned project is an entry of the project list of that session,
\* the one with the resolved name when a name was resolved.
C17_ReturnHasSessionAndProject ==
    (pc = "done" /\ External /\ outcome = "returned") =>
        /\ conn = NewSession
        /\ OpenSessions = 1
        /\ attempts # << >>
        /\ project_obj.idx \in 1..Len(saas_projects)
        /\ project_obj.name = saas_projects[project_obj.idx]
        /\ project # None => project_obj.name = Get(project)

C17_Witness ==
    /\ pc = "done"
    /\ External
    /\ outcome = "returned"
    /\ Len(attempts) = 2
    /\ project = Some("a")
    /\ saas_projects = <<"b", "a">>
    /\ project_obj = [idx |-> 2, name |-> "a"]
    /\ conn = NewSession

\* the steps login can still take, at most, before it ends, not counting the
\* repetitions of the project prompt
Rank ==
    IF pc = "done" THEN 0
    ELSE IF pc = "getpass" THEN 5
    ELSE IF branch = "cached"
         THEN (IF pc = "connect" THEN 8 ELSE IF pc = "get_projects" THEN 7 ELSE 6)
    ELSE (IF pc = "connect" THEN 4 ELSE IF pc = "input" THEN 2 ELSE 3)

\* C18: a login call does not retry. Every step of it brings it closer to its
\* end, except a project prompt answered with an invalid selection, which repeats
\* the prompt; it makes at most two Connections, the first of two from the cached
\* key file and the second with the resolved or typed key, and shows the key
\* prompt at most once; when the Connection of the main branch is rejected, login
\* ends with RestAPIError.
C18_NoRetry ==
    [][(InLogin /\ pc' # "idle") =>
          /\ \/ Rank' < Rank
             \/ /\ pc = "input"
                /\ pc' = "input"
                /\ ~GoodChoice(inputs'[Len(inputs')], Len(saas_projects))
          /\ Len(attempts') <= 2
          /\ keyPrompts' <= 1
          /\ \A i \in 1..Len(attempts') :
                attempts'[i].src = "api_key_file" => i = 1
          /\ Len(attempts') = 2 =>
                /\ attempts'[1].src = "api_key_file"
                /\ attempts'[2].src = "api_key_value"
          /\ (pc = "connect" /\ branch = "main" /\ conn' # NewSession) =>
                (pc' = "done" /\ outcome' = "RestAPIError")
      ]_vars

C18_Witness ==
    /\ pc = "done"
    /\ outcome = "RestAPIError"
    /\ Len(attempts) = 2
    /\ keyPrompts = 1
    /\ conn = Placeholder

====
